---- MODULE Spec2Model ----
(***************************************************************************)
(* TimeChecker (script.py): the main loop check_time, the countdown        *)
(* threads time_lock_countdown and countdown_check, the warning-dialog     *)
(* threads, the signal handler, and the pure helpers is_time_to_lock and   *)
(* get_network_time.                                                       *)
(***************************************************************************)
EXTENDS Integers, Sequences, FiniteSets, TLC

VARIABLES
    stop_event,        \* self.stop_event (Event): TRUE once set
    warning_active,    \* self.warning_active
    countdown_thread,  \* self.countdown_thread: 0 is None, else a thread slot
    lock_times,        \* self.lock_times: sequence of <<start, end>> HH:MM strings
    mpc,               \* main thread: position in run / check_time
    m_reason,          \* main thread: which branch of check_time is spawning or raised
    m_net,             \* main thread: network_time - local_time of line 241/251
    m_startWA,         \* history: warning_active when the cycle began, kept to its sleep
    m_outcome,         \* history: how the cycle ended, kept over its sleep
    task,              \* countdown threads, by slot
    dialog,            \* warning-dialog threads, by slot
    lock_failed,       \* history: some LockWorkStation call has raised
    sched_now,         \* schedule evaluator run on its own: the clock reading
    sched_result,      \* schedule evaluator run on its own: the value returned
    net,               \* get_network_time run on its own: the call's position
    tk,                \* safe_tk_operation run on its own: the call's position
    clock              \* the wall clock, where a run follows it minute by minute

vars == <<stop_event, warning_active, countdown_thread, lock_times, mpc, m_reason,
          m_net, m_startWA, m_outcome, task, dialog, lock_failed, sched_now, sched_result,
          net, tk, clock>>

----------------------------------------------------------------------------
(* Bounds of the model *)

MaxTasks == 2        \* countdown threads alive at once
MaxDialogs == 1      \* warning-dialog threads alive at once
MaxWindows == 2      \* length of the window lists tried on is_time_to_lock
MaxMinute == 2       \* minutes past 13:00 the followed clock runs to

(* Program constants *)

total_checks == 30       \* countdown_check: samples of the drift countdown
DriftLimitMin == 5       \* minutes of drift tolerated (lines 210, 258)
NumServers == 4          \* len(self.ntp_servers)
max_retries == 3         \* safe_tk_operation: attempts at a dialog

Tasks == 1..MaxTasks
Dialogs == 1..MaxDialogs

----------------------------------------------------------------------------
(* HH:MM strings: sequences of five one-character strings *)

CharOrder == <<"0", "1", "2", "3", "4", "5", "6", "7", "8", "9", ":">>

\* code point order of the characters that occur in HH:MM strings
Ord(c) == CHOOSE k \in 1..Len(CharOrder) : CharOrder[k] = c

DigitChar(n) == CharOrder[n + 1]
DigitVal(c) == Ord(c) - 1

\* Python's str.__gt__: lexicographic comparison by code point
RECURSIVE StrGreater(_, _)
StrGreater(a, b) ==
    IF a = <<>> \/ b = <<>> THEN a # <<>> /\ b = <<>>
    ELSE IF Head(a) # Head(b) THEN Ord(Head(a)) > Ord(Head(b))
    ELSE StrGreater(Tail(a), Tail(b))

\* datetime.strftime("%H:%M") of a clock reading <<hour, minute>>
strftime(t) ==
    <<DigitChar(t[1] \div 10), DigitChar(t[1] % 10), ":",
      DigitChar(t[2] \div 10), DigitChar(t[2] % 10)>>

\* datetime.strptime(s, "%H:%M"): 1900-01-01 at that hour and minute, kept as
\* the minute of that day (all values compared share the date)
strptime(s) ==
    (DigitVal(s[1]) * 10 + DigitVal(s[2])) * 60 + DigitVal(s[4]) * 10 + DigitVal(s[5])

\* one iteration of the loop of is_time_to_lock (lines 97-109)
WindowMatchesNoBoundary(current_time_str, w) ==
    LET current == strptime(current_time_str)
        start == strptime(w[1])
        end == strptime(w[2])
    IN  IF StrGreater(w[1], w[2])
        THEN current >= start \/ current < end
        ELSE start <= current /\ current < end

WindowMatches(current_time_str, w) ==
    LET current == strptime(current_time_str)
        start == strptime(w[1])
        end == strptime(w[2])
    IN  IF StrGreater(w[1], w[2])
        THEN current >= start \/ current <= end
        ELSE start <= current /\ current <= end

\* is_time_to_lock, given the clock reading of line 92
RECURSIVE is_time_to_lock(_, _)
is_time_to_lock(now, windows) ==
    IF windows = <<>> THEN FALSE
    ELSE IF WindowMatches(strftime(now), Head(windows)) THEN TRUE
    ELSE is_time_to_lock(now, Tail(windows))

\* self.lock_times as __init__ sets it
ConfiguredLockTimes ==
    << << <<"1", "1", ":", "0", "0">>, <<"1", "3", ":", "0", "0">> >>,
       << <<"1", "7", ":", "0", "0">>, <<"1", "9", ":", "0", "0">> >>,
       << <<"2", "1", ":", "0", "0">>, <<"2", "3", ":", "5", "9">> >>,
       << <<"0", "0", ":", "0", "0">>, <<"0", "7", ":", "0", "0">> >> >>

----------------------------------------------------------------------------
(* Time Source Client *)

\* what one NTP server answers: a failure, or a time, kept as its offset in
\* seconds from the local clock read right after it (network_time - local_time)
Fail == [ok |-> FALSE, diff |-> 0]
Answer(d) == [ok |-> TRUE, diff |-> d]
None == Fail

\* network_time of check_time in a cycle that has not queried the time source
Unqueried == [ok |-> FALSE, diff |-> 0 - 1]

DriftSamples == {0 - 301, 300, 301}
Responses == {Fail} \cup {Answer(d) : d \in DriftSamples}
NetInputs == [1..NumServers -> Responses]

\* get_network_time: the first server of the list that answers, else None
RECURSIVE get_network_time(_)
get_network_time(resp) ==
    IF resp = <<>> THEN None
    ELSE IF Head(resp).ok THEN Head(resp)
    ELSE get_network_time(Tail(resp))

\* what get_network_time returns over all the answers the servers may give
NetResults == {get_network_time(resp) : resp \in NetInputs}

Abs(x) == IF x < 0 THEN 0 - x ELSE x

\* time_diff = abs(seconds / 60), compared with 5 minutes: both sides times 60
TimeDiffOver(network_time) == Abs(network_time.diff) > DriftLimitMin * 60

----------------------------------------------------------------------------
(* Threads *)

IdleTask == [pc |-> "idle", kind |-> "none", i |-> 0, locks |-> 0, resynced |-> FALSE,
             end |-> "none"]

\* a thread's slot is free once the thread has ended
FreeTasks == {t \in Tasks : task[t].pc = "idle"}
FreeDialogs == {d \in Dialogs : dialog[d] = "idle"}
Lowest(S) == CHOOSE x \in S : \A y \in S : x <= y

\* the clock readings of datetime.now() tried in check_time: <<hour, minute>>
ClockSamples == {<<10, 59>>, <<11, 0>>, <<13, 0>>, <<13, 1>>, <<23, 59>>, <<7, 1>>}

\* __init__, but for lock_times
InitThreads ==
    /\ stop_event = FALSE
    /\ warning_active = FALSE
    /\ countdown_thread = 0
    /\ mpc = "loop"
    /\ m_reason = "none"
    /\ m_net = Unqueried
    /\ m_startWA = FALSE
    /\ m_outcome = "none"
    /\ task = [t \in Tasks |-> IdleTask]
    /\ dialog = [d \in Dialogs |-> "idle"]
    /\ lock_failed = FALSE
    /\ sched_now = <<>>
    /\ sched_result = FALSE

\* no call of get_network_time or safe_tk_operation is followed on its own,
\* and the clock is not followed
NoCall == [pc |-> "none"]
NoClock == <<>>

Init ==
    /\ lock_times = ConfiguredLockTimes
    /\ InitThreads
    /\ net = NoCall
    /\ tk = NoCall
    /\ clock = NoClock

sharedVars == <<stop_event, warning_active, countdown_thread>>
mainVars == <<mpc, m_reason, m_net, m_startWA, m_outcome>>
aloneVars == <<net, tk, clock>>
schedVars == <<lock_times, sched_now, sched_result, aloneVars>>

----------------------------------------------------------------------------
(* Process lifecycle *)

\* signal_handler, run in the main thread between any two of its steps:
\* cleanup sets stop_event and joins countdown_thread for at most a second,
\* then sys.exit(0) raises SystemExit, which no handler of run or check_time
\* catches (they catch Exception), so the main thread ends
signal_handlerNoStop ==
    /\ mpc # "exited"
    /\ mpc' = "exited"
    /\ m_reason' = "none"
    /\ m_net' = Unqueried
    /\ m_startWA' = FALSE
    /\ m_outcome' = "none"
    /\ UNCHANGED <<sharedVars, task, dialog, lock_failed, schedVars>>

signal_handler ==
    /\ mpc # "exited"
    /\ stop_event' = TRUE
    /\ mpc' = "exited"
    /\ m_reason' = "none"
    /\ m_net' = Unqueried
    /\ m_startWA' = FALSE
    /\ m_outcome' = "none"
    /\ UNCHANGED <<warning_active, countdown_thread, task, dialog, lock_failed, schedVars>>

----------------------------------------------------------------------------
(* Main loop: run and check_time *)

\* lines 228-231 and 241-252: a cycle begins with the loop condition, reads
\* the clock for is_time_to_lock() and, outside the lock windows, queries
\* the time source; none of these touches the state the threads share
check_time_beginQueriesFirst(now, network_time) ==
    /\ mpc = "loop"
    /\ IF stop_event
       THEN UNCHANGED <<mpc, m_net, m_startWA>>
       ELSE /\ m_startWA' = warning_active
            /\ m_net' = network_time
            /\ mpc' = IF is_time_to_lock(now, lock_times) THEN "stest" ELSE "dtest"
    /\ UNCHANGED <<sharedVars, m_reason, m_outcome, task, dialog, lock_failed, schedVars>>

check_time_begin(now, network_time) ==
    /\ mpc = "loop"
    /\ IF stop_event
       THEN UNCHANGED <<mpc, m_net, m_startWA>>  \* back to run, called again
       ELSE /\ m_startWA' = warning_active
            /\ IF is_time_to_lock(now, lock_times)
               THEN mpc' = "stest" /\ UNCHANGED m_net
               ELSE mpc' = "dtest" /\ m_net' = network_time
    /\ UNCHANGED <<sharedVars, m_reason, m_outcome, task, dialog, lock_failed, schedVars>>

\* lines 232-233 and 237: the flag guards the schedule trigger
check_time_lock_branchNoGuard ==
    /\ mpc = "stest"
    /\ warning_active' = TRUE
    /\ m_reason' = "sched"
    /\ mpc' = "dlg"
    /\ UNCHANGED <<stop_event, countdown_thread, m_net, m_startWA, m_outcome, task,
                   dialog, lock_failed, schedVars>>

check_time_lock_branch ==
    /\ mpc = "stest"
    /\ IF ~warning_active
       THEN /\ warning_active' = TRUE
            /\ m_reason' = "sched"
            /\ mpc' = "dlg"
            /\ UNCHANGED <<m_startWA, m_outcome>>
       ELSE /\ mpc' = "sleep60"
            /\ m_startWA' = FALSE
            /\ m_outcome' = "skipped"
            /\ UNCHANGED <<warning_active, m_reason>>
    /\ UNCHANGED <<stop_event, countdown_thread, m_net, task, dialog, lock_failed,
                   schedVars>>

\* lines 243-246 and 258-259: the drift trigger
DriftTriggerAtLeast(network_time, active) ==
    IF ~network_time.ok THEN ~active
    ELSE Abs(network_time.diff) >= DriftLimitMin * 60 /\ ~active

DriftTrigger(network_time, active) ==
    IF ~network_time.ok THEN ~active
    ELSE TimeDiffOver(network_time) /\ ~active

check_time_drift_branchNoSet ==
    /\ mpc = "dtest"
    /\ IF DriftTrigger(m_net, warning_active)
       THEN /\ m_reason' = "drift"
            /\ mpc' = "dlg"
            /\ UNCHANGED <<warning_active, m_startWA, m_outcome>>
       ELSE /\ mpc' = "sleep300"
            /\ m_startWA' = FALSE
            /\ m_outcome' = IF ~m_net.ok \/ TimeDiffOver(m_net)
                            THEN "skipped" ELSE "quiet"
            /\ UNCHANGED <<warning_active, m_reason>>
    /\ m_net' = Unqueried
    /\ UNCHANGED <<stop_event, countdown_thread, task, dialog, lock_failed, schedVars>>

check_time_drift_branch ==
    /\ mpc = "dtest"
    /\ IF DriftTrigger(m_net, warning_active)
       THEN /\ warning_active' = TRUE
            /\ m_reason' = "drift"
            /\ mpc' = "dlg"
            /\ UNCHANGED <<m_startWA, m_outcome>>
       ELSE /\ mpc' = "sleep300"
            /\ m_startWA' = FALSE
            /\ m_outcome' = IF ~m_net.ok \/ TimeDiffOver(m_net)
                            THEN "skipped" ELSE "quiet"
            /\ UNCHANGED <<warning_active, m_reason>>
    /\ m_net' = Unqueried
    /\ UNCHANGED <<stop_event, countdown_thread, task, dialog, lock_failed, schedVars>>

\* lines 234, 247, 260: Thread(target=self.show_countdown_warning, ...).start();
\* started is FALSE when start() raises RuntimeError
spawn_dialog(started) ==
    /\ mpc = "dlg"
    /\ IF started
       THEN /\ FreeDialogs # {}
            /\ dialog' = [dialog EXCEPT ![Lowest(FreeDialogs)] = "running"]
            /\ mpc' = "cd"
            /\ UNCHANGED <<m_reason, m_startWA>>
       ELSE /\ mpc' = "err"
            /\ m_startWA' = FALSE
            /\ UNCHANGED <<m_reason, dialog>>
    /\ UNCHANGED <<sharedVars, m_net, m_outcome, task, lock_failed, schedVars>>

\* lines 235-236, 248-249, 261-262: self.countdown_thread = Thread(...), then
\* start(), which may raise RuntimeError; then on to the sleep of the branch
spawn_countdown(started) ==
    /\ mpc = "cd"
    /\ FreeTasks # {}
    /\ countdown_thread' = Lowest(FreeTasks)
    /\ IF started
       THEN /\ task' = [task EXCEPT ![Lowest(FreeTasks)] =
                            [IdleTask EXCEPT
                                !.pc = IF m_reason = "sched" THEN "sleep" ELSE "loop",
                                !.kind = m_reason]]
            /\ mpc' = IF m_reason = "sched" THEN "sleep60" ELSE "sleep300"
            /\ m_outcome' = "spawned"
            /\ m_reason' = "none"
       ELSE /\ mpc' = "err"
            /\ UNCHANGED <<task, m_outcome, m_reason>>
    /\ m_startWA' = FALSE
    /\ UNCHANGED <<stop_event, warning_active, m_net, dialog, lock_failed, schedVars>>

\* lines 264-269: the handler of check_time logs and falls through to the
\* sleep of line 269; escapes is TRUE when the handler itself raises, which
\* run catches at lines 280-284 and answers with sleep(10)
check_time_exceptBackoff(escapes) ==
    /\ mpc = "err"
    /\ mpc' = "sleep10"
    /\ m_outcome' = IF escapes THEN "escaped" ELSE "caught"
    /\ UNCHANGED <<sharedVars, m_reason, m_net, m_startWA, task, dialog,
                   lock_failed, schedVars>>

check_time_exceptExits(escapes) ==
    /\ mpc = "err"
    /\ mpc' = IF escapes THEN "exited" ELSE "sleep300"
    /\ m_outcome' = IF escapes THEN "none" ELSE "caught"
    /\ UNCHANGED <<sharedVars, m_reason, m_net, m_startWA, task, dialog,
                   lock_failed, schedVars>>

check_time_except(escapes) ==
    /\ mpc = "err"
    /\ mpc' = IF escapes THEN "sleep10" ELSE "sleep300"
    /\ m_outcome' = IF escapes THEN "escaped" ELSE "caught"
    /\ UNCHANGED <<sharedVars, m_reason, m_net, m_startWA, task, dialog,
                   lock_failed, schedVars>>

\* time.sleep of lines 237, 269, 283 ends; the next cycle starts at line 228
sleep_done ==
    /\ mpc \in {"sleep60", "sleep300", "sleep10"}
    /\ mpc' = "loop"
    /\ m_outcome' = "none"
    /\ m_reason' = "none"
    /\ UNCHANGED <<sharedVars, m_net, m_startWA, task, dialog,
                   lock_failed, schedVars>>

----------------------------------------------------------------------------
(* Countdown threads: time_lock_countdown, countdown_check, lock_windows *)

otherVars == <<schedVars, mainVars, dialog>>

\* the thread's target returns (its locals are gone); end records by which
\* return, for the claims
Returned(t, how) == [task[t] EXCEPT !.pc = "ret", !.i = 0, !.end = how]

\* time_lock_countdown, lines 185-186: sleep(60), then the stop check; the
\* thread ends when the check finds the event set
time_lock_countdownRechecks(t) ==
    /\ task[t].pc = "sleep"
    /\ task' = [task EXCEPT ![t] =
                   IF stop_event \/ ~is_time_to_lock(clock, lock_times)
                   THEN [task[t] EXCEPT !.pc = "ret", !.i = 0, !.end = "stop"]
                   ELSE [task[t] EXCEPT !.pc = "lock"]]
    /\ UNCHANGED <<sharedVars, lock_failed, otherVars>>

time_lock_countdownIgnoresStop(t) ==
    /\ task[t].pc = "sleep"
    /\ task' = [task EXCEPT ![t] = [task[t] EXCEPT !.pc = "lock"]]
    /\ UNCHANGED <<sharedVars, lock_failed, otherVars>>

time_lock_countdown(t) ==
    /\ task[t].pc = "sleep"
    /\ task' = [task EXCEPT ![t] =
                   IF stop_event THEN Returned(t, "stop")
                   ELSE [task[t] EXCEPT !.pc = "lock"]]
    /\ UNCHANGED <<sharedVars, lock_failed, otherVars>>

\* the Python for-loop after sample i: on to the next iteration, or out of
\* the loop to line 220
AfterSample(t, n) ==
    [task[t] EXCEPT !.i = task[t].i + 1,
                    !.pc = IF task[t].i + 1 < n THEN "loop" ELSE "expiry"]

\* resynced records that a sample was a resync sample as the spec words it
\* (a trusted time at most 5 minutes from the local one), whatever the code
\* then does with it
SampleResyncs(network_time) ==
    network_time.ok /\ Abs(network_time.diff) <= DriftLimitMin * 60

\* countdown_check, lines 196-218: one iteration: the stop check, the sample
\* (which shares nothing with the other threads until its answer is used),
\* then the resync return or sleep(10)
countdown_checkIgnoresResync(t, network_time) ==
    /\ task[t].pc = "loop"
    /\ task' = [task EXCEPT ![t] =
                   IF stop_event THEN Returned(t, "stop")
                   ELSE [AfterSample(t, total_checks) EXCEPT
                            !.resynced = task[t].resynced \/ SampleResyncs(network_time)]]
    /\ UNCHANGED <<sharedVars, lock_failed, otherVars>>

countdown_checkShort(t, network_time) ==
    /\ task[t].pc = "loop"
    /\ IF stop_event
       THEN /\ task' = [task EXCEPT ![t] = Returned(t, "stop")]
            /\ UNCHANGED warning_active
       ELSE IF network_time.ok /\ ~TimeDiffOver(network_time)
       THEN /\ warning_active' = FALSE
            /\ task' = [task EXCEPT ![t] =
                           [task[t] EXCEPT !.pc = "confirm", !.i = 0,
                                           !.resynced = SampleResyncs(network_time)]]
       ELSE /\ task' = [task EXCEPT ![t] = AfterSample(t, total_checks - 1)]
            /\ UNCHANGED warning_active
    /\ UNCHANGED <<stop_event, countdown_thread, lock_failed, otherVars>>

countdown_check(t, network_time) ==
    /\ task[t].pc = "loop"
    /\ IF stop_event
       THEN /\ task' = [task EXCEPT ![t] = Returned(t, "stop")]
            /\ UNCHANGED warning_active
       ELSE IF network_time.ok /\ ~TimeDiffOver(network_time)
       THEN /\ warning_active' = FALSE
            /\ task' = [task EXCEPT ![t] =
                           [task[t] EXCEPT !.pc = "confirm", !.i = 0,
                                           !.resynced = SampleResyncs(network_time)]]
       ELSE /\ task' = [task EXCEPT ![t] =
                           [AfterSample(t, total_checks) EXCEPT
                               !.resynced = SampleResyncs(network_time)]]
            /\ UNCHANGED warning_active
    /\ UNCHANGED <<stop_event, countdown_thread, lock_failed, otherVars>>

\* countdown_check, lines 213-214: show_normal_message() comes back (its
\* dialog was dismissed, or safe_tk_operation gave up), then return
countdown_check_confirmed(t) ==
    /\ task[t].pc = "confirm"
    /\ task' = [task EXCEPT ![t] = Returned(t, "resync")]
    /\ UNCHANGED <<sharedVars, lock_failed, otherVars>>

\* countdown_check, line 220: the stop check after the loop
countdown_check_expiry(t) ==
    /\ task[t].pc = "expiry"
    /\ task' = [task EXCEPT ![t] =
                   IF stop_event THEN Returned(t, "stop")
                   ELSE [task[t] EXCEPT !.pc = "lock"]]
    /\ UNCHANGED <<sharedVars, lock_failed, otherVars>>

\* lock_windows, lines 150-151 and 154-156: LockWorkStation(); locked is FALSE
\* when the call raises, which the handler logs before the return
lock_windows_call(t, locked) ==
    /\ task[t].pc = "lock"
    /\ task' = [task EXCEPT ![t] =
                   IF locked
                   THEN [task[t] EXCEPT !.pc = "reset", !.locks = task[t].locks + 1]
                   ELSE [Returned(t, "lockfail") EXCEPT !.locks = task[t].locks + 1]]
    /\ lock_failed' = (lock_failed \/ ~locked)
    /\ UNCHANGED <<sharedVars, otherVars>>

\* lock_windows, line 153: self.warning_active = False, then return
lock_windows_resetKeepsFlag(t) ==
    /\ task[t].pc = "reset"
    /\ task' = [task EXCEPT ![t] = Returned(t, "locked")]
    /\ UNCHANGED <<sharedVars, lock_failed, otherVars>>

lock_windows_reset(t) ==
    /\ task[t].pc = "reset"
    /\ warning_active' = FALSE
    /\ task' = [task EXCEPT ![t] = Returned(t, "locked")]
    /\ UNCHANGED <<stop_event, countdown_thread, lock_failed, otherVars>>

\* the thread's target has returned: the thread ends
thread_exit(t) ==
    /\ task[t].pc = "ret"
    /\ task' = [task EXCEPT ![t] = IdleTask]
    /\ UNCHANGED <<sharedVars, lock_failed, otherVars>>

----------------------------------------------------------------------------
(* Warning-dialog threads *)

\* show_countdown_warning, run to its end in its own thread: the dialog was
\* shown and dismissed, or safe_tk_operation gave up; it reads and writes
\* nothing the other threads use
show_countdown_warningClearsFlag(d) ==
    /\ dialog[d] = "running"
    /\ dialog' = [dialog EXCEPT ![d] = "idle"]
    /\ warning_active' = FALSE
    /\ UNCHANGED <<stop_event, countdown_thread, mainVars, task, lock_failed, schedVars>>

show_countdown_warning(d) ==
    /\ dialog[d] = "running"
    /\ dialog' = [dialog EXCEPT ![d] = "idle"]
    /\ UNCHANGED <<sharedVars, mainVars, task, lock_failed, schedVars>>

----------------------------------------------------------------------------
(* The program *)

MainStep ==
    \/ \E now \in ClockSamples, network_time \in NetResults :
          check_time_begin(now, network_time)
    \/ check_time_lock_branch
    \/ check_time_drift_branch
    \/ \E started \in BOOLEAN : spawn_dialog(started)
    \/ \E started \in BOOLEAN : spawn_countdown(started)
    \/ \E escapes \in BOOLEAN : check_time_except(escapes)
    \/ sleep_done

TaskStep(t) ==
    \/ time_lock_countdown(t)
    \/ \E network_time \in NetResults : countdown_check(t, network_time)
    \/ countdown_check_confirmed(t)
    \/ countdown_check_expiry(t)
    \/ \E locked \in BOOLEAN : lock_windows_call(t, locked)
    \/ lock_windows_reset(t)
    \/ thread_exit(t)

Next ==
    \/ signal_handler
    \/ MainStep
    \/ \E t \in Tasks : TaskStep(t)
    \/ \E d \in Dialogs : show_countdown_warning(d)

Spec == Init /\ [][Next]_vars

----------------------------------------------------------------------------
(* The schedule evaluator on its own, over lists of HH:MM windows *)

WindowTimes == {<<0, 0>>, <<7, 0>>, <<13, 0>>, <<21, 0>>, <<23, 59>>}
Windows == {<<strftime(s), strftime(e)>> : s \in WindowTimes, e \in WindowTimes}
WindowLists ==
    UNION {[1..n -> Windows] : n \in 1..MaxWindows} \cup {ConfiguredLockTimes}

SchedClock == {<<0, 0>>, <<3, 0>>, <<7, 0>>, <<7, 1>>, <<12, 59>>, <<13, 0>>,
               <<13, 1>>, <<20, 59>>, <<21, 0>>, <<22, 30>>, <<23, 59>>}

InitSched ==
    /\ lock_times \in WindowLists
    /\ InitThreads
    /\ net = NoCall
    /\ tk = NoCall
    /\ clock = NoClock

\* a call of is_time_to_lock when the clock reads now
is_time_to_lock_call(now) ==
    /\ sched_now' = now
    /\ sched_result' = is_time_to_lock(now, lock_times)
    /\ UNCHANGED <<sharedVars, mainVars, task, dialog, lock_failed, lock_times, aloneVars>>

NextSched == \E now \in SchedClock : is_time_to_lock_call(now)

SpecSched == InitSched /\ [][NextSched]_vars

----------------------------------------------------------------------------
(* The program while the clock stays inside a lock window, no signal        *)
(* arrives and every thread starts: each thread keeps running (weak         *)
(* fairness per thread), and a warning dialog is dismissed in the end       *)

WindowClock == {now \in ClockSamples : is_time_to_lock(now, ConfiguredLockTimes)}

MainStepWindow ==
    \/ \E now \in WindowClock, network_time \in NetResults :
          check_time_begin(now, network_time)
    \/ check_time_lock_branch
    \/ spawn_dialog(TRUE)
    \/ spawn_countdown(TRUE)
    \/ sleep_done

TaskStepWindow(t) ==
    \/ time_lock_countdown(t)
    \/ \E locked \in BOOLEAN : lock_windows_call(t, locked)
    \/ lock_windows_reset(t)
    \/ thread_exit(t)

NextWindow ==
    \/ MainStepWindow
    \/ \E t \in Tasks : TaskStepWindow(t)
    \/ \E d \in Dialogs : show_countdown_warning(d)

SpecWindow ==
    /\ Init
    /\ [][NextWindow]_vars
    /\ WF_vars(MainStepWindow)
    /\ \A t \in Tasks : WF_vars(TaskStepWindow(t))
    /\ \A d \in Dialogs : WF_vars(show_countdown_warning(d))

----------------------------------------------------------------------------
(* safe_tk_operation on its own, over what each attempt may meet *)

\* how one attempt (lines 121-126) ends: it completes; tk.Tk() or withdraw()
\* raises before the operation ran; the operation raises; the operation came
\* back and root.destroy() raises
TkOutcomes == {"completes", "tk_raises", "operation_raises", "destroy_raises"}
TkInputs == [1..max_retries -> TkOutcomes]

\* the call as it begins: attempt is the loop variable, runs counts the calls
\* of operation(root), result is what the call returned ("unset" before)
TkCall(outcomes) ==
    [pc |-> "try", attempt |-> 0, runs |-> 0, result |-> "unset",
     outcomes |-> outcomes]

\* what messagebox.showwarning / showinfo give back once dismissed
DialogResult == "ok"

\* one iteration of the loop of line 120 with its handler (127-131), then the
\* return of line 126 or, past the last attempt, of line 132
safe_tk_attemptNoBound(c) ==
    LET o == c.outcomes[(c.attempt % max_retries) + 1]
        ran == IF o = "tk_raises" THEN 0 ELSE 1
    IN  IF o = "completes"
        THEN [c EXCEPT !.pc = "ret", !.runs = c.runs + ran, !.result = DialogResult]
        ELSE IF c.attempt + 1 < max_retries + 1
        THEN [c EXCEPT !.attempt = c.attempt + 1, !.runs = c.runs + ran]
        ELSE [c EXCEPT !.pc = "ret", !.attempt = c.attempt + 1,
                       !.runs = c.runs + ran, !.result = "None"]

safe_tk_attempt(c) ==
    LET o == c.outcomes[c.attempt + 1]
        ran == IF o = "tk_raises" THEN 0 ELSE 1
    IN  IF o = "completes"
        THEN [c EXCEPT !.pc = "ret", !.runs = c.runs + ran, !.result = DialogResult]
        ELSE IF c.attempt + 1 < max_retries
        THEN [c EXCEPT !.attempt = c.attempt + 1, !.runs = c.runs + ran]
        ELSE [c EXCEPT !.pc = "ret", !.attempt = c.attempt + 1,
                       !.runs = c.runs + ran, !.result = "None"]

safe_tk_operation ==
    /\ tk.pc = "try"
    /\ tk' = safe_tk_attempt(tk)
    /\ UNCHANGED <<sharedVars, mainVars, task, dialog, lock_failed, lock_times,
                   sched_now, sched_result, net, clock>>

InitTk ==
    /\ lock_times = ConfiguredLockTimes
    /\ InitThreads
    /\ net = NoCall
    /\ clock = NoClock
    /\ tk \in {TkCall(outcomes) : outcomes \in TkInputs}

SpecTk == InitTk /\ [][safe_tk_operation]_vars

----------------------------------------------------------------------------
(* get_network_time on its own, one server request at a time *)

\* the call as it begins: k is the server the loop of line 136 is at,
\* queried counts the requests made, result is what the call returned
NetCall(resp) ==
    [pc |-> "req", k |-> 1, queried |-> 0, result |-> None, resp |-> resp]

\* one iteration of the loop (lines 137-144), then the return of line 141 or,
\* past the last server, of line 145; a request that fails raises an
\* Exception, which line 142 catches
ntp_requestKeepsAsking(c) ==
    LET r == c.resp[c.k]
        got == IF r.ok THEN r ELSE c.result
    IN  IF c.k < NumServers
        THEN [c EXCEPT !.k = c.k + 1, !.queried = c.queried + 1, !.result = got]
        ELSE [c EXCEPT !.pc = "ret", !.queried = c.queried + 1, !.result = got]

ntp_request(c) ==
    LET r == c.resp[c.k]
    IN  IF r.ok
        THEN [c EXCEPT !.pc = "ret", !.queried = c.queried + 1, !.result = r]
        ELSE IF c.k < NumServers
        THEN [c EXCEPT !.k = c.k + 1, !.queried = c.queried + 1]
        ELSE [c EXCEPT !.pc = "ret", !.queried = c.queried + 1, !.result = None]

get_network_time_request ==
    /\ net.pc = "req"
    /\ net' = ntp_request(net)
    /\ UNCHANGED <<sharedVars, mainVars, task, dialog, lock_failed, lock_times,
                   sched_now, sched_result, tk, clock>>

InitNet ==
    /\ lock_times = ConfiguredLockTimes
    /\ InitThreads
    /\ tk = NoCall
    /\ clock = NoClock
    /\ net \in {NetCall(resp) : resp \in NetInputs}

SpecNet == InitNet /\ [][get_network_time_request]_vars

----------------------------------------------------------------------------
(* The program with its threads scheduled fairly *)

\* some countdown thread gets to run whenever one can (its sleep ends, its
\* request times out, its confirmation dialog is dismissed); nothing is asked
\* of the main loop or of the warning dialogs, which may stay open for ever
CountdownStep == \E t \in Tasks : TaskStep(t)

SpecTasksFair ==
    /\ Init
    /\ [][Next]_vars
    /\ WF_vars(CountdownStep)

\* some thread of the program gets to run whenever one can, and a warning
\* dialog that is the only thing left to wait for is dismissed
ProgramStep ==
    \/ MainStep
    \/ CountdownStep
    \/ \E d \in Dialogs : show_countdown_warning(d)

SpecFair ==
    /\ Init
    /\ [][Next]_vars
    /\ WF_vars(ProgramStep)

----------------------------------------------------------------------------
(* The program followed minute by minute from 13:00, the last minute of the  *)
(* window 11:00-13:00, with the time source in step with the local clock     *)

\* the clock moves on by a minute
clock_tick ==
    /\ clock # NoClock
    /\ clock[2] < MaxMinute
    /\ clock' = <<clock[1], clock[2] + 1>>
    /\ UNCHANGED <<sharedVars, mainVars, task, dialog, lock_failed, lock_times,
                   sched_now, sched_result, net, tk>>

InitClock ==
    /\ lock_times = ConfiguredLockTimes
    /\ InitThreads
    /\ net = NoCall
    /\ tk = NoCall
    /\ clock = <<13, 0>>

MainStepClock ==
    \/ check_time_begin(clock, Answer(0))
    \/ check_time_lock_branch
    \/ check_time_drift_branch
    \/ spawn_dialog(TRUE)
    \/ spawn_countdown(TRUE)
    \/ sleep_done

NextClock ==
    \/ clock_tick
    \/ signal_handler
    \/ MainStepClock
    \/ \E t \in Tasks : TaskStepWindow(t)
    \/ \E d \in Dialogs : show_countdown_warning(d)

SpecClock == InitClock /\ [][NextClock]_vars

----------------------------------------------------------------------------
(* Claims *)

Running(t) == task[t].pc \notin {"idle", "ret"}
MainMoves == mpc' # mpc /\ mpc' # "exited"
TriggerHolds == mpc = "stest" \/ (mpc = "dtest" /\ (~m_net.ok \/ TimeDiffOver(m_net)))

\* C1: at most one countdown thread (started, not yet returned) exists in
\* every reachable state.
C1_AtMostOneCountdown == Cardinality({t \in Tasks : Running(t)}) <= 1

\* C2 as stated: a cycle that began while warning_active was true never gets
\* to spawn a dialog or a countdown thread.
C2_NoSpawnWhenActiveAtCycleStart == ~(m_startWA /\ mpc \in {"dlg", "cd"})

\* C2, amended: a cycle that finds warning_active true when it tests the flag
\* (lines 232, 245, 258) under a trigger condition goes straight to its sleep:
\* it spawns no countdown thread and no dialog thread and leaves
\* warning_active and countdown_thread unchanged.
C2_NoSpawnWhenActiveAtTest ==
    [][(TriggerHolds /\ warning_active /\ MainMoves)
         => /\ mpc' = (IF mpc = "stest" THEN "sleep60" ELSE "sleep300")
            /\ UNCHANGED <<warning_active, countdown_thread, task, dialog>>]_vars

C2_Witness ==
    /\ mpc = "sleep60"
    /\ m_outcome = "skipped"
    /\ warning_active
    /\ \E t \in Tasks : task[t].kind = "sched"

\* C3: a sample of countdown_check that shows a trusted time at most 5
\* minutes from the local one ends the countdown at that sample and sets
\* warning_active to false, and that countdown never calls the Lock Action.
C3_ResyncCancels ==
    /\ [](\A t \in Tasks : task[t].resynced =>
             /\ task[t].locks = 0
             /\ \/ task[t].pc = "confirm"
                \/ task[t].pc = "ret" /\ task[t].end = "resync")
    /\ [][\A t \in Tasks : (~task[t].resynced /\ task'[t].resynced) =>
             ~warning_active' /\ task'[t].pc = "confirm"]_vars
    /\ [][\A t \in Tasks : (task[t].pc = "confirm" /\ task'[t] # task[t]) =>
             task'[t] = [task[t] EXCEPT !.pc = "ret", !.end = "resync"]]_vars

C3_Witness ==
    \E t \in Tasks : /\ task[t].pc = "ret"
                     /\ task[t].end = "resync"
                     /\ task[t].resynced
                     /\ task[t].locks = 0
                     /\ ~warning_active

\* C4: a drift countdown calls the Lock Action only after all 30 samples were
\* taken with none a resync, and exactly once if it has returned with no
\* resync and no Stop Signal set.
C4_FullExpiryLocksOnce ==
    /\ [](\A t \in Tasks : task[t].kind = "drift" =>
             /\ task[t].locks \in {0, 1}
             /\ (task[t].locks = 1 <=>
                    \/ task[t].pc = "reset"
                    \/ task[t].pc = "ret" /\ task[t].end \in {"locked", "lockfail"})
             /\ (task[t].pc \in {"expiry", "lock", "reset"}
                   => task[t].i = 30 /\ ~task[t].resynced)
             /\ (task[t].pc = "loop" => task[t].i < 30)
             /\ (task[t].pc = "ret" /\ ~task[t].resynced /\ ~stop_event
                   => task[t].locks = 1))
    /\ [][\A t \in Tasks :
             (task[t].pc = "expiry" /\ task'[t] # task[t] /\ ~stop_event)
                => task'[t].pc = "lock"]_vars

C4_Witness ==
    \E t \in Tasks : /\ task[t].kind = "drift"
                     /\ task[t].pc = "ret"
                     /\ task[t].end = "locked"
                     /\ task[t].locks = 1
                     /\ ~stop_event

MinuteOf(reading) == reading[1] * 60 + reading[2]

\* C6: is_time_to_lock returns true iff some window (s, e) has s <= t <= e
\* when s <= e, or t >= s or t <= e when s > e; with the configured windows
\* 13:00 and 07:00 are inside, 07:01 and 20:59 outside.
C6_ScheduleEvaluator ==
    sched_now # <<>> =>
      /\ sched_result =
           (\E k \in 1..Len(lock_times) :
               LET s == strptime(lock_times[k][1])
                   e == strptime(lock_times[k][2])
                   t == MinuteOf(sched_now)
               IN  IF s <= e THEN s <= t /\ t <= e ELSE t >= s \/ t <= e)
      /\ (lock_times = ConfiguredLockTimes =>
            /\ (sched_now \in {<<13, 0>>, <<7, 0>>} => sched_result)
            /\ (sched_now \in {<<7, 1>>, <<20, 59>>} => ~sched_result))

C6_Witness ==
    /\ Len(lock_times) = 1
    /\ strptime(lock_times[1][1]) > strptime(lock_times[1][2])
    /\ sched_now # <<>>
    /\ MinuteOf(sched_now) = strptime(lock_times[1][2])
    /\ sched_result

\* C7: after a Lock Action has raised, a cycle that begins while no countdown
\* thread is running finds warning_active false, so that a trigger condition
\* met in it starts a new warning cycle.
C7_RetriggerAfterLockFailure ==
    (lock_failed /\ mpc = "loop" /\ ~stop_event /\ \A t \in Tasks : ~Running(t))
        => ~warning_active

\* C8: when a countdown thread of an active warning cycle observes the Stop
\* Signal and exits, warning_active is false.
C8_StopReturnsToIdle ==
    [][\A t \in Tasks :
          (Running(t) /\ warning_active /\ stop_event
             /\ task'[t].pc = "ret" /\ task'[t].end = "stop") => ~warning_active']_vars

C10_ErrorSleeps10 ==
    m_outcome \in {"caught", "escaped"} => mpc = "sleep10"

\* C10, amended: an error raised in a cycle is caught and logged by the
\* handler of check_time (line 264), after which the Main Loop sleeps the
\* regular 300 s; the 10 s sleep follows only an exception that escapes
\* check_time to run (line 280).
C10_ErrorSleeps300 ==
    /\ (m_outcome = "caught" => mpc = "sleep300")
    /\ (mpc = "sleep10" <=> m_outcome = "escaped")

C10_Witness == m_outcome = "caught" /\ mpc = "sleep300" /\ warning_active

\* the attempts of a call that have ended, and those among them in which the
\* operation itself was run
AttemptsMade(c) == IF c.pc = "ret" /\ c.result # "None" THEN c.attempt + 1 ELSE c.attempt
FirstCompletes(c) ==
    IF \E k \in 1..3 : c.outcomes[k] = "completes"
    THEN CHOOSE k \in 1..3 : /\ c.outcomes[k] = "completes"
                             /\ \A j \in 1..(k - 1) : c.outcomes[j] # "completes"
    ELSE 0

\* C19: safe_tk_operation runs the dialog operation at most 3 times, returns
\* at the first attempt that completes without error with that attempt's
\* result, and after 3 failed attempts returns None; whatever an attempt
\* raises, the call goes on to its next attempt or returns.
C19_RetryBound ==
    /\ tk.pc # "none" =>
         /\ tk.runs <= 3
         /\ AttemptsMade(tk) <= 3
         /\ tk.pc \in {"try", "ret"}
         /\ (tk.pc = "ret" =>
               IF FirstCompletes(tk) # 0
               THEN tk.result = "ok" /\ AttemptsMade(tk) = FirstCompletes(tk)
               ELSE tk.result = "None" /\ AttemptsMade(tk) = 3)
         /\ (tk.pc = "try" =>
               \A k \in 1..tk.attempt : tk.outcomes[k] # "completes")

C19_Witness ==
    /\ tk.pc = "ret"
    /\ tk.result = "None"
    /\ tk.runs = 3
    /\ tk.attempt = 3

\* the first server of the list, in list order, whose request succeeds (0: none)
FirstAnswering(resp) ==
    IF \E k \in 1..4 : resp[k].ok
    THEN CHOOSE k \in 1..4 : resp[k].ok /\ \A j \in 1..(k - 1) : ~resp[j].ok
    ELSE 0

\* C12: get_network_time returns the answer of the first server in list order
\* whose request succeeds and asks no server after it; it returns None iff
\* every request fails; a failed request never ends the call otherwise.
C12_FirstSuccessWins ==
    net.pc # "none" =>
      /\ net.pc \in {"req", "ret"}
      /\ net.queried <= 4
      /\ (net.pc = "req" => \A j \in 1..net.queried : ~net.resp[j].ok)
      /\ (net.pc = "ret" =>
            /\ IF FirstAnswering(net.resp) # 0
               THEN /\ net.result = net.resp[FirstAnswering(net.resp)]
                    /\ net.queried = FirstAnswering(net.resp)
               ELSE /\ net.result = [ok |-> FALSE, diff |-> 0]
                    /\ net.queried = 4
            /\ (~net.result.ok <=> \A k \in 1..4 : ~net.resp[k].ok)
            /\ net.result = get_network_time(net.resp))

C12_Witness ==
    /\ net.pc = "ret"
    /\ ~net.resp[1].ok
    /\ net.resp[2].ok /\ net.resp[3].ok
    /\ net.resp[2] # net.resp[3]
    /\ net.result = net.resp[2]
    /\ net.queried = 2

\* a countdown thread in its counting phase: asleep or sampling
Counting(t) == task[t].pc \in {"sleep", "loop"}

\* C11: a warning dialog being started, ending (shown and dismissed, or given
\* up after its attempts) or staying open changes neither warning_active nor
\* any countdown thread, and a countdown that was started gets to call the
\* Lock Action unless it resyncs or observes the Stop Signal, also when no
\* dialog is ever dismissed.
C11_DialogsNeverBlockLock ==
    /\ [][dialog' # dialog => UNCHANGED <<warning_active, task, stop_event>>]_vars
    /\ \A t \in Tasks :
          Counting(t) ~> \/ task[t].pc = "lock"
                         \/ task[t].resynced
                         \/ task[t].pc = "ret" /\ task[t].end = "stop"

\* a drift countdown has run its 30 samples and locked while the warning
\* dialog of its cycle is still open
C11_Witness ==
    /\ \E t \in Tasks : /\ task[t].kind = "drift"
                        /\ task[t].pc = "reset"
                        /\ task[t].locks = 1
    /\ \A d \in Dialogs : dialog[d] = "running"
    /\ ~stop_event

\* the process has ended: the main thread has left through sys.exit(0) and
\* no thread of the program is left
Terminated ==
    /\ mpc = "exited"
    /\ \A t \in Tasks : task[t].pc = "idle"
    /\ \A d \in Dialogs : dialog[d] = "idle"

\* C13: a termination signal, in whatever state it comes, sets the Stop
\* Signal before the main thread exits, and the handler does not wait for
\* the countdown thread to end; after it the main thread starts no cycle and
\* no thread, and the process ends once its threads have, which they do when
\* every open dialog is dismissed.
C13_GracefulShutdown ==
    /\ [](mpc = "exited" => stop_event)
    /\ [][mpc' = "exited" => stop_event']_vars
    /\ [][mpc = "exited" =>
            /\ mpc' = "exited"
            /\ \A t \in Tasks : task[t].pc = "idle" => task'[t].pc = "idle"
            /\ \A d \in Dialogs : dialog[d] = "idle" => dialog'[d] = "idle"]_vars
    /\ (stop_event ~> Terminated)

\* the signal came while a countdown was running; the main thread has
\* exited, and the countdown has observed the Stop Signal and returned
C13_Witness ==
    /\ mpc = "exited"
    /\ stop_event
    /\ \E t \in Tasks : task[t].pc = "ret" /\ task[t].end = "stop"
    /\ \A d \in Dialogs : dialog[d] = "idle"

\* C14: an exception raised in a check cycle is caught by check_time or by
\* run, and one raised by the Lock Action in a countdown thread is caught in
\* that thread: the main thread ends only through the Stop Signal, it goes
\* from the handler to a sleep, and it keeps coming back to the start of a
\* cycle for as long as the Stop Signal is not set.
C14_MainLoopSurvives ==
    /\ [][(mpc = "err" /\ mpc' # mpc) =>
             \/ mpc' \in {"sleep300", "sleep10"}
             \/ mpc' = "exited" /\ stop_event']_vars
    /\ [][(mpc # "exited" /\ mpc' = "exited") => (~stop_event /\ stop_event')]_vars
    /\ [][(~lock_failed /\ lock_failed') => UNCHANGED <<mpc, stop_event>>]_vars
    /\ []<>(mpc = "loop" \/ stop_event)

\* a cycle raised while starting a thread (the flag is set and no thread
\* runs), and a later cycle is under way
C14_Witness ==
    /\ mpc = "dtest"
    /\ warning_active
    /\ ~lock_failed
    /\ ~stop_event
    /\ \A t \in Tasks : task[t].pc = "idle"

\* C15 as stated: a cycle in which the Schedule Evaluator reported inside a
\* lock window sleeps 60 s, never 300 s or 10 s, before the next cycle.
C15_WindowCycleSleeps60 ==
    m_reason = "sched" => mpc \notin {"sleep300", "sleep10"}

\* C15, amended: a cycle in which the Schedule Evaluator reported inside a
\* lock window has not queried the time source and starts no drift countdown;
\* it sleeps 60 s unless starting one of its threads raised, in which case it
\* sleeps as after any error; a cycle outside the lock windows that does not
\* raise sleeps 300 s, whether or not it started a drift countdown.
C15_SchedulePriority ==
    /\ [](mpc = "stest" => m_net = Unqueried)
    /\ [](m_reason = "sched" =>
            /\ m_net = Unqueried
            /\ mpc \in {"dlg", "cd", "err", "sleep300", "sleep10"}
            /\ (mpc = "sleep300" => m_outcome = "caught")
            /\ (mpc = "sleep10" => m_outcome = "escaped"))
    /\ [](mpc = "sleep60" => m_outcome \in {"spawned", "skipped"})
    /\ [][(mpc = "stest" /\ MainMoves) =>
            \/ mpc' = "sleep60" /\ UNCHANGED <<task, dialog>>
            \/ mpc' = "dlg" /\ m_reason' = "sched"]_vars
    /\ [][(mpc \in {"dlg", "cd"} /\ m_reason = "sched" /\ MainMoves) =>
            /\ mpc' \in {"cd", "sleep60", "err"}
            /\ \A t \in Tasks : task'[t] # task[t] => task'[t].kind = "sched"]_vars
    /\ [][(mpc = "dtest" /\ MainMoves) =>
            \/ mpc' = "sleep300" /\ UNCHANGED <<task, dialog>>
            \/ mpc' = "dlg" /\ m_reason' = "drift"]_vars
    /\ [][(mpc \in {"dlg", "cd"} /\ m_reason = "drift" /\ MainMoves) =>
            mpc' \in {"cd", "sleep300", "err"}]_vars

\* a cycle inside a lock window failed to start its countdown thread and
\* sleeps 300 s
C15_Witness ==
    /\ m_reason = "sched"
    /\ mpc = "sleep300"
    /\ m_outcome = "caught"
    /\ m_net = Unqueried

C17_ScheduleCountdownUnconditional ==
    /\ [][\A t \in Tasks :
             (task[t].kind = "sched" /\ task[t].pc = "sleep" /\ ~stop_event
                /\ task'[t] # task[t])
               => task'[t] = [task[t] EXCEPT !.pc = "lock"]]_vars
    /\ [][\A t \in Tasks :
             (task[t].kind = "sched" /\ task[t].pc = "lock" /\ task'[t] # task[t])
               => task'[t].locks = task[t].locks + 1]_vars
    /\ [](\A t \in Tasks : task[t].pc # "idle" => task[t].kind = "sched")
    /\ [][(mpc = "loop" /\ mpc' = "stest") => clock = <<13, 0>>]_vars

\* the countdown started at 13:00 has expired at 13:01, outside every lock
\* window, and is at its call of the Lock Action
C17_Witness ==
    /\ clock = <<13, 1>>
    /\ ~is_time_to_lock(clock, lock_times)
    /\ ~stop_event
    /\ \E t \in Tasks : task[t].kind = "sched" /\ task[t].pc = "lock"

\* C18: warning_active is true in every state in which a countdown thread is
\* asleep, sampling, at its check after the last sample or at its lock call,
\* and in every state in which the main thread is about to start the threads
\* of a cycle: the main loop sets the flag before it starts the thread and no
\* thread clears it while a countdown is in that phase.
C18_FlagCoversCountdown ==
    /\ \A t \in Tasks :
          task[t].pc \in {"sleep", "loop", "expiry", "lock"} => warning_active
    /\ (mpc \in {"dlg", "cd"} => warning_active)

\* a drift countdown is past its first samples while an earlier countdown,
\* which cleared the flag when it resynced, has not returned yet
C18_Witness ==
    \E t \in Tasks, u \in Tasks :
        /\ task[t].pc = "loop" /\ task[t].i >= 2
        /\ task[u].pc = "confirm"
        /\ warning_active

====
